---- MODULE Spec2Model ----
(***************************************************************************)
(* A model of the worker pool of src/pool.go: Pool builds n workers that   *)
(* drain one buffered channel `in` of capacity n; Execute pushes the       *)
(* envelopes of a batch onto `in` and then collects one result per pushed  *)
(* envelope from the batch's own result channel.                           *)
(*                                                                         *)
(* Every Go `select` is one atomic step; when several of its cases are     *)
(* ready the runtime picks any of them, so each ready case is an action    *)
(* of its own and the choice is left open.                                 *)
(***************************************************************************)
EXTENDS Integers, Sequences, FiniteSets, TLC

\* Bounds of the model.
MaxWorkers == 2   \* Pool(n, done) is called with n in 1..MaxWorkers
NumBatches == 2   \* concurrent calls of Execute
MaxBatch   == 3   \* len(actions) of the first call is 0..MaxBatch
MaxOther   == 1   \* len(actions) of every other call is 0..MaxOther

Batches == 1..NumBatches
Items   == 1..MaxBatch

\* The longest batch call b is made with.
MaxLen(b) == IF b = 1 THEN MaxBatch ELSE MaxOther

\* Error values. nil, errors.New("pool is closed"), ctx.Err() and the error
\* a unit of work returns on its own account.
Nil        == "nil"
PoolClosed == "pool is closed"
Canceled   == "context canceled"
ActionErr(b, i) == "action " \o ToString(b) \o "." \o ToString(i)

VARIABLES
  n,           \* the worker count the pool was built with
  closed,      \* the done channel is closed
  in,          \* p.in: the envelopes buffered in the shared queue
  running,     \* the envelopes some worker holds in `a`: dequeued, result not yet sent
  exited,      \* how many of the workers have returned from work
  pc,          \* batch -> "idle" | "enqueue" | "collect" | "returned"
  qty,         \* batch -> len(actions)
  idx,         \* batch -> index of the action the enqueue loop is at
  queued,      \* batch -> queued
  err,         \* batch -> err
  ret,         \* batch -> the value Execute returned
  res,         \* batch -> the result channel (buffered, capacity qty)
  parentDone,  \* batch -> the caller's ctx is cancelled
  derived,     \* batch -> "none" | "active" | "cancelled": ctx, cancel of WithCancel
  execCount,   \* history: batch -> item -> how many times a worker started it
  outcome,     \* history: batch -> item -> what the unit of work returned, or "none"
  closedInEnqueue, \* history: batch -> done was closed at the call or during a pending enqueue select
  ctxAtCall    \* history: batch -> the caller's ctx was already cancelled at the call

vars == << n, closed, in, running, exited, pc, qty, idx, queued, err, ret, res,
           parentDone, derived, execCount, outcome, closedInEnqueue, ctxAtCall >>

poolVars  == << n, closed, in, running, exited >>
histVars  == << execCount, outcome >>

\* cap(p.in): make(chan poolAction, n)
QueueCap == n

\* make(chan error), an unbuffered result channel.
ResCapUnbuffered(b) == 0

\* cap(res): make(chan error, qty)
ResCap(b) == qty[b]

\* ctx.Done() of the derived context is ready: the parent is cancelled or
\* cancel() was called.
CtxDone(b) == parentDone[b] \/ derived[b] = "cancelled"

\* The workers blocked in the select of line 67.
IdleWorkers == n - Cardinality(running) - exited

\* The state Pool(n, done) returns in (lines 80-92): n workers in their
\* select, an empty queue of capacity n, done open; no call of Execute yet.
\* n is at least 1: Pool replaces n <= 0 by runtime.NumCPU() (lines 81-83).
Init ==
  /\ n \in 1..MaxWorkers
  /\ closed = FALSE
  /\ in = << >>
  /\ running = {}
  /\ exited = 0
  /\ pc = [b \in Batches |-> "idle"]
  /\ qty = [b \in Batches |-> 0]
  /\ idx = [b \in Batches |-> 1]
  /\ queued = [b \in Batches |-> 0]
  /\ err = [b \in Batches |-> Nil]
  /\ ret = [b \in Batches |-> Nil]
  /\ res = [b \in Batches |-> << >>]
  /\ parentDone = [b \in Batches |-> FALSE]
  /\ derived = [b \in Batches |-> "none"]
  /\ execCount = [b \in Batches |-> [i \in Items |-> 0]]
  /\ outcome = [b \in Batches |-> [i \in Items |-> "none"]]
  /\ closedInEnqueue = [b \in Batches |-> FALSE]
  /\ ctxAtCall = [b \in Batches |-> FALSE]

----------------------------------------------------------------------------
\* Execute, lines 24-63. The caller passes a context that is cancelled
\* already (c) or not.

\* Execute without the qty == 0 test: the empty batch takes the path of the
\* others (WithCancel, make, the loops).
CallEmptyNoTest(b, c) ==
  /\ pc[b] = "idle"
  /\ pc' = [pc EXCEPT ![b] = "collect"]
  /\ parentDone' = [parentDone EXCEPT ![b] = c]
  /\ derived' = [derived EXCEPT ![b] = IF c THEN "cancelled" ELSE "active"]
  /\ ctxAtCall' = [ctxAtCall EXCEPT ![b] = c]
  /\ UNCHANGED << poolVars, histVars, qty, idx, queued, err, ret, res,
                  closedInEnqueue >>

\* qty == 0: return nil (lines 25-28).
CallEmpty(b, c) ==
  /\ pc[b] = "idle"
  /\ pc' = [pc EXCEPT ![b] = "returned"]
  /\ ret' = [ret EXCEPT ![b] = Nil]
  /\ parentDone' = [parentDone EXCEPT ![b] = c]
  /\ ctxAtCall' = [ctxAtCall EXCEPT ![b] = c]
  /\ UNCHANGED << poolVars, histVars, qty, idx, queued, err, res, derived,
                  closedInEnqueue >>

\* qty > 0: derive ctx, make res, enter the enqueue loop (lines 30-39).
CallBatch(b, len, c) ==
  /\ pc[b] = "idle"
  /\ len > 0
  /\ pc' = [pc EXCEPT ![b] = "enqueue"]
  /\ qty' = [qty EXCEPT ![b] = len]
  /\ parentDone' = [parentDone EXCEPT ![b] = c]
  /\ derived' = [derived EXCEPT ![b] = IF c THEN "cancelled" ELSE "active"]
  /\ ctxAtCall' = [ctxAtCall EXCEPT ![b] = c]
  /\ closedInEnqueue' = [closedInEnqueue EXCEPT ![b] = closed]
  /\ UNCHANGED << poolVars, histVars, idx, queued, err, ret, res >>

\* case <-p.done (lines 42-44).
EnqueueClosed(b) ==
  /\ pc[b] = "enqueue"
  /\ closed
  /\ derived' = [derived EXCEPT ![b] = "cancelled"]
  /\ ret' = [ret EXCEPT ![b] = PoolClosed]
  /\ pc' = [pc EXCEPT ![b] = "returned"]
  /\ UNCHANGED << poolVars, histVars, qty, idx, queued, err, res, parentDone,
                  closedInEnqueue, ctxAtCall >>

\* case <-ctx.Done() (lines 45-47).
EnqueueCtxDone(b) ==
  /\ pc[b] = "enqueue"
  /\ CtxDone(b)
  /\ err' = [err EXCEPT ![b] = Canceled]
  /\ pc' = [pc EXCEPT ![b] = "collect"]
  /\ UNCHANGED << poolVars, histVars, qty, idx, queued, ret, res, parentDone,
                  derived, closedInEnqueue, ctxAtCall >>

\* case p.in <- pa (lines 48-49), and the loop's step to the next action.
EnqueuePush(b) ==
  /\ pc[b] = "enqueue"
  /\ Len(in) < QueueCap
  /\ in' = Append(in, [b |-> b, i |-> idx[b]])
  /\ queued' = [queued EXCEPT ![b] = @ + 1]
  /\ idx' = [idx EXCEPT ![b] = @ + 1]
  /\ pc' = [pc EXCEPT ![b] = IF idx[b] + 1 > qty[b] THEN "collect" ELSE "enqueue"]
  /\ UNCHANGED << n, closed, running, exited, histVars, qty, err, ret, res,
                  parentDone, derived, closedInEnqueue, ctxAtCall >>

\* Collect with `err = r` for every result, nil or not, and no first-error latch.
CollectLastWins(b) ==
  /\ pc[b] = "collect"
  /\ queued[b] > 0
  /\ res[b] # << >>
  /\ LET r == Head(res[b]) IN
       /\ res' = [res EXCEPT ![b] = Tail(@)]
       /\ queued' = [queued EXCEPT ![b] = @ - 1]
       /\ err' = [err EXCEPT ![b] = r]
       /\ derived' = [derived EXCEPT ![b] = IF r # Nil THEN "cancelled" ELSE @]
  /\ UNCHANGED << poolVars, histVars, pc, qty, idx, ret, parentDone,
                  closedInEnqueue, ctxAtCall >>

\* Collect without the call of cancel() at line 57.
CollectNoCancel(b) ==
  /\ pc[b] = "collect"
  /\ queued[b] > 0
  /\ res[b] # << >>
  /\ LET r == Head(res[b]) IN
       /\ res' = [res EXCEPT ![b] = Tail(@)]
       /\ queued' = [queued EXCEPT ![b] = @ - 1]
       /\ err' = [err EXCEPT ![b] = IF r # Nil /\ @ = Nil THEN r ELSE @]
  /\ UNCHANGED << poolVars, histVars, pc, qty, idx, ret, parentDone, derived,
                  closedInEnqueue, ctxAtCall >>

\* Collect without the test err == nil: every non-nil result is recorded.
CollectNoLatch(b) ==
  /\ pc[b] = "collect"
  /\ queued[b] > 0
  /\ res[b] # << >>
  /\ LET r == Head(res[b]) IN
       /\ res' = [res EXCEPT ![b] = Tail(@)]
       /\ queued' = [queued EXCEPT ![b] = @ - 1]
       /\ IF r # Nil
            THEN /\ err' = [err EXCEPT ![b] = r]
                 /\ derived' = [derived EXCEPT ![b] = "cancelled"]
            ELSE UNCHANGED << err, derived >>
  /\ UNCHANGED << poolVars, histVars, pc, qty, idx, ret, parentDone,
                  closedInEnqueue, ctxAtCall >>

\* One iteration of the collection loop (lines 53-60).
Collect(b) ==
  /\ pc[b] = "collect"
  /\ queued[b] > 0
  /\ res[b] # << >>
  /\ LET r == Head(res[b]) IN
       /\ res' = [res EXCEPT ![b] = Tail(@)]
       /\ queued' = [queued EXCEPT ![b] = @ - 1]
       /\ IF r # Nil /\ err[b] = Nil
            THEN /\ err' = [err EXCEPT ![b] = r]
                 /\ derived' = [derived EXCEPT ![b] = "cancelled"]
            ELSE UNCHANGED << err, derived >>
  /\ UNCHANGED << poolVars, histVars, pc, qty, idx, ret, parentDone,
                  closedInEnqueue, ctxAtCall >>

\* Return without the loop condition queued > 0 having failed.
ReturnEarly(b) ==
  /\ pc[b] = "collect"
  /\ ret' = [ret EXCEPT ![b] = err[b]]
  /\ derived' = [derived EXCEPT ![b] = "cancelled"]
  /\ pc' = [pc EXCEPT ![b] = "returned"]
  /\ UNCHANGED << poolVars, histVars, qty, idx, queued, err, res, parentDone,
                  closedInEnqueue, ctxAtCall >>

\* return err, with the deferred cancel() (lines 31, 62).
Return(b) ==
  /\ pc[b] = "collect"
  /\ queued[b] = 0
  /\ ret' = [ret EXCEPT ![b] = err[b]]
  /\ derived' = [derived EXCEPT ![b] = "cancelled"]
  /\ pc' = [pc EXCEPT ![b] = "returned"]
  /\ UNCHANGED << poolVars, histVars, qty, idx, queued, err, res, parentDone,
                  closedInEnqueue, ctxAtCall >>

----------------------------------------------------------------------------
\* work, lines 65-74. The workers run the same loop and hold no state of
\* their own but the envelope in hand, so they are kept as a count of the
\* exited and the set of envelopes in hand.

\* case <-done: return (lines 68-69).
WorkerExit ==
  /\ IdleWorkers > 0
  /\ closed
  /\ exited' = exited + 1
  /\ UNCHANGED << n, closed, in, running, pc, qty, idx, queued, err, ret, res,
                  parentDone, derived, histVars, closedInEnqueue, ctxAtCall >>

\* A receive from `in` that does not wait for the unit of work in hand
\* (go a.action.Execute in place of the call).
CanDequeueWhileBusy == exited < n /\ in # << >>

\* Some worker is in the select and may receive from `in`.
CanDequeue == IdleWorkers > 0 /\ in # << >>

\* A receive that takes the envelope pushed last (a stack in place of the
\* channel's queue).
WorkerDequeueLast ==
  /\ CanDequeue
  /\ LET a == in[Len(in)] IN
       /\ running' = running \cup {a}
       /\ execCount' = [execCount EXCEPT ![a.b][a.i] = @ + 1]
  /\ in' = SubSeq(in, 1, Len(in) - 1)
  /\ UNCHANGED << n, closed, exited, pc, qty, idx, queued, err, ret, res,
                  parentDone, derived, outcome, closedInEnqueue, ctxAtCall >>

\* A receive that skips the envelope of a cancelled batch: no execution and
\* no result for it.
WorkerDequeueSkipCancelled ==
  /\ CanDequeue
  /\ LET a == Head(in) IN
       IF CtxDone(a.b)
         THEN UNCHANGED << running, execCount >>
         ELSE /\ running' = running \cup {a}
              /\ execCount' = [execCount EXCEPT ![a.b][a.i] = @ + 1]
  /\ in' = Tail(in)
  /\ UNCHANGED << n, closed, exited, pc, qty, idx, queued, err, ret, res,
                  parentDone, derived, outcome, closedInEnqueue, ctxAtCall >>

\* case a := <-in (line 70); the unit of work starts.
WorkerDequeue ==
  /\ CanDequeue
  /\ LET a == Head(in) IN
       /\ running' = running \cup {a}
       /\ execCount' = [execCount EXCEPT ![a.b][a.i] = @ + 1]
  /\ in' = Tail(in)
  /\ UNCHANGED << n, closed, exited, pc, qty, idx, queued, err, ret, res,
                  parentDone, derived, outcome, closedInEnqueue, ctxAtCall >>

\* What a unit of work may return: nil or an error of its own (the pool
\* never inspects it).
Returns(a) == {Nil, ActionErr(a.b, a.i)}

\* The unit of work runs and its result is dropped instead of sent.
WorkerReportDropped(a) ==
  /\ a \in running
  /\ \E r \in {Nil, ActionErr(a.b, a.i)} :
       outcome' = [outcome EXCEPT ![a.b][a.i] = r]
  /\ running' = running \ {a}
  /\ UNCHANGED << n, closed, in, exited, pc, qty, idx, queued, err, ret, res,
                  parentDone, derived, execCount, closedInEnqueue, ctxAtCall >>

\* The send succeeds only while the call is there to receive (a channel
\* without buffer): after the call has returned the worker stays blocked.
WorkerReportIfWaiting(a) ==
  /\ a \in running
  /\ pc[a.b] # "returned"
  /\ Len(res[a.b]) < ResCap(a.b)
  /\ \E r \in {Nil, ActionErr(a.b, a.i)} :
       /\ res' = [res EXCEPT ![a.b] = Append(@, r)]
       /\ outcome' = [outcome EXCEPT ![a.b][a.i] = r]
  /\ running' = running \ {a}
  /\ UNCHANGED << n, closed, in, exited, pc, qty, idx, queued, err, ret,
                  parentDone, derived, execCount, closedInEnqueue, ctxAtCall >>

\* The result is sent on one channel shared by all the calls (that of the
\* first batch) instead of a.response.
WorkerReportShared(a) ==
  /\ a \in running
  /\ Len(res[1]) < MaxBatch
  /\ \E r \in {Nil, ActionErr(a.b, a.i)} :
       /\ res' = [res EXCEPT ![1] = Append(@, r)]
       /\ outcome' = [outcome EXCEPT ![a.b][a.i] = r]
  /\ running' = running \ {a}
  /\ UNCHANGED << n, closed, in, exited, pc, qty, idx, queued, err, ret,
                  parentDone, derived, execCount, closedInEnqueue, ctxAtCall >>

\* a.response <- a.action.Execute(a.ctx) (line 71): the unit of work
\* returns r, which is sent on the batch's channel of capacity qty.
WorkerReport(a) ==
  /\ a \in running
  /\ Len(res[a.b]) < ResCap(a.b)
  /\ \E r \in Returns(a) :
       /\ res' = [res EXCEPT ![a.b] = Append(@, r)]
       /\ outcome' = [outcome EXCEPT ![a.b][a.i] = r]
  /\ running' = running \ {a}
  /\ UNCHANGED << n, closed, in, exited, pc, qty, idx, queued, err, ret,
                  parentDone, derived, execCount, closedInEnqueue, ctxAtCall >>

----------------------------------------------------------------------------
\* The environment: the caller cancels its context during the call, the
\* owner of the pool closes done.

CancelCaller(b) ==
  /\ ~parentDone[b]
  /\ pc[b] \in {"enqueue", "collect"}
  /\ parentDone' = [parentDone EXCEPT ![b] = TRUE]
  /\ derived' = [derived EXCEPT ![b] = "cancelled"]
  /\ UNCHANGED << poolVars, histVars, pc, qty, idx, queued, err, ret, res,
                  closedInEnqueue, ctxAtCall >>

Shutdown ==
  /\ ~closed
  /\ closed' = TRUE
  /\ closedInEnqueue' = [b \in Batches |-> closedInEnqueue[b] \/ pc[b] = "enqueue"]
  /\ UNCHANGED << n, in, running, exited, pc, qty, idx, queued, err, ret, res,
                  parentDone, derived, histVars, ctxAtCall >>

Envelopes == [b : Batches, i : Items]

ExecuteStep(b) ==
  \/ \E c \in BOOLEAN : CallEmpty(b, c)
  \/ \E len \in 1..MaxLen(b), c \in BOOLEAN : CallBatch(b, len, c)
  \/ EnqueueClosed(b)
  \/ EnqueueCtxDone(b)
  \/ EnqueuePush(b)
  \/ Collect(b)
  \/ Return(b)

WorkerStep ==
  \/ WorkerExit
  \/ WorkerDequeue
  \/ \E a \in Envelopes : WorkerReport(a)

Next ==
  \/ \E b \in Batches : ExecuteStep(b)
  \/ WorkerStep
  \/ \E b \in Batches : CancelCaller(b)
  \/ Shutdown

Spec == Init /\ [][Next]_vars

\* The steps of a call of Execute that is under way, and the scheduling the
\* Go runtime gives: a goroutine that stays runnable is run.
ExecuteRun(b) ==
  \/ EnqueueClosed(b)
  \/ EnqueueCtxDone(b)
  \/ EnqueuePush(b)
  \/ Collect(b)
  \/ Return(b)

FairSpec ==
  /\ Init
  /\ [][Next]_vars
  /\ \A b \in Batches : WF_vars(ExecuteRun(b))
  /\ WF_vars(WorkerStep)

----------------------------------------------------------------------------
\* Shorthands of the properties.

\* The items of batch b.
ItemsOf(b) == 1..qty[b]

\* The items of batch b that returned a non-nil error.
Failed(b) == {i \in ItemsOf(b) : outcome[b][i] \notin {"none", Nil}}

\* The envelopes of batch b that are pushed and whose result Execute has not
\* received: in the queue, in a worker's hands, or its result in the channel.
InQueue(b) == {k \in 1..Len(in) : in[k].b = b}
InHand(b)  == {a \in running : a.b = b}
Drained(b) == InQueue(b) = {} /\ InHand(b) = {} /\ res[b] = << >>

TypeOK ==
  /\ closed \in BOOLEAN
  /\ exited \in 0..n
  /\ running \subseteq Envelopes
  /\ Len(in) <= QueueCap
  /\ \A b \in Batches :
       /\ pc[b] \in {"idle", "enqueue", "collect", "returned"}
       /\ qty[b] \in 0..MaxBatch
       /\ idx[b] \in 1..(MaxBatch + 1)
       /\ queued[b] \in 0..MaxBatch
       /\ derived[b] \in {"none", "active", "cancelled"}

----------------------------------------------------------------------------
\* C1: a call with a non-empty batch whose units of work all return nil,
\* with the caller's context not cancelled and done not closed, returns nil,
\* and at the return every unit of work has been executed exactly once.
C1_AllSucceed ==
  \A b \in Batches :
    /\ \A i \in Items : execCount[b][i] <= 1
    /\ (pc[b] = "returned" /\ qty[b] > 0 /\ Failed(b) = {}
          /\ ~parentDone[b] /\ ~closed)
         => /\ ret[b] = Nil
            /\ \A i \in ItemsOf(b) : execCount[b][i] = 1 /\ outcome[b][i] = Nil

C1_Witness ==
  /\ ~closed
  /\ \A b \in Batches :
       /\ pc[b] = "returned" /\ qty[b] = MaxLen(b) /\ ~parentDone[b]
       /\ ret[b] = Nil
       /\ \A i \in ItemsOf(b) : outcome[b][i] = Nil

\* C2: a call with a non-empty batch whose caller's context was cancelled
\* before the return returns a non-nil error, and a call that returns nil
\* had no failing unit of work.
C2_NilOnlyIfNeverCancelled ==
  \A b \in Batches :
    (pc[b] = "returned" /\ qty[b] > 0 /\ ret[b] = Nil)
      => (~parentDone[b] /\ Failed(b) = {})

\* C3: once a unit of work of a batch has returned a non-nil error, no
\* further envelope of that batch is pushed onto the queue.
C3_NoPushAfterFailure ==
  [][\A b \in Batches : Failed(b) # {} => idx'[b] = idx[b]]_vars

\* C4: the units of work that are executing (dequeued, result not yet sent),
\* over all batches, are never more than the worker count.
C4_ConcurrencyBound == Cardinality(running) <= n

C4_Witness ==
  /\ n = MaxWorkers
  /\ Cardinality(running) = n
  /\ in # << >>
  /\ \E a1 \in running, a2 \in running : a1.b # a2.b

\* C5: a call whose batch has exactly one failing unit of work, with the
\* caller's context not cancelled and done not closed, returns that unit's
\* error.
C5_SingleFailure ==
  \A b \in Batches : \A i \in Items :
    (pc[b] = "returned" /\ Failed(b) = {i} /\ ~parentDone[b] /\ ~closed)
      => ret[b] = outcome[b][i]

C5_Witness ==
  \E b \in Batches :
    /\ pc[b] = "returned" /\ ~parentDone[b] /\ ~closed
    /\ qty[b] = MaxBatch
    /\ Failed(b) = {2}
    /\ ret[b] = ActionErr(b, 2)

\* C6: a call with a non-empty batch that found done closed at its start, or
\* during which done was closed while it was in its enqueue phase, returns
\* the "pool is closed" error.
C6_ClosedDuringEnqueue ==
  \A b \in Batches :
    (pc[b] = "returned" /\ closedInEnqueue[b]) => ret[b] = PoolClosed

\* C7: a call with a non-empty batch whose caller's context is cancelled
\* already, done not closed, pushes no envelope and returns the context's
\* error.
C7_CancelledBeforeCall ==
  \A b \in Batches :
    (qty[b] > 0 /\ ctxAtCall[b] /\ ~closed)
      => /\ idx[b] = 1
         /\ pc[b] = "returned" => ret[b] = Canceled

\* C8: while done is not closed, every call of Execute that is under way
\* returns (every unit of work returns, scheduling is fair).
C8_Termination ==
  \A b \in Batches :
    (pc[b] \in {"enqueue", "collect"}) ~> (pc[b] = "returned" \/ closed)

\* A call blocked in its enqueue select: the queue is full, every worker is
\* busy, nothing else is ready.
C8_Witness ==
  \E b \in Batches :
    /\ pc[b] = "enqueue" /\ ~closed /\ ~CtxDone(b)
    /\ Len(in) = QueueCap /\ IdleWorkers = 0
    /\ qty[b] > QueueCap
    /\ \E c \in Batches : c # b /\ pc[c] = "collect"

\* C9: when a call has returned, on any path, every envelope it pushed has
\* been executed and its result received.
C9_DrainedOnReturn ==
  \A b \in Batches : pc[b] = "returned" => Drained(b)

\* C10: the call with an empty batch returns nil in one step, with done
\* closed or the context cancelled too, and changes nothing of the pool, of
\* the other batches or of its own context.
C10_EmptyBatch ==
  [][\A b \in Batches :
       (pc[b] = "idle" /\ pc'[b] # "idle" /\ qty'[b] = 0)
         => /\ pc'[b] = "returned"
            /\ ret'[b] = Nil
            /\ derived'[b] = "none"
            /\ UNCHANGED << n, closed, in, running, exited, res, queued, idx >>
            /\ \A c \in Batches \ {b} :
                 /\ pc'[c] = pc[c] /\ err'[c] = err[c] /\ ret'[c] = ret[c]
                 /\ derived'[c] = derived[c] /\ parentDone'[c] = parentDone[c]]_vars

C10_Witness ==
  \E b \in Batches :
    /\ pc[b] = "returned" /\ qty[b] = 0
    /\ closed /\ parentDone[b]
    /\ ret[b] = Nil /\ derived[b] = "none"
    /\ in # << >>

\* The envelopes pushed so far have all been executed and reported. A pushed
\* envelope stays pushed and a reported one stays reported.
AllPushedReported ==
  \A b \in Batches : \A i \in Items : idx[b] > i => outcome[b][i] # "none"

\* C11: every envelope pushed onto the queue yields exactly one result: it is
\* started at most once, and it is eventually dequeued, executed and its
\* result sent (scheduling is fair, every unit of work returns), so from
\* some moment on nothing pushed is without its result.
C11_ExactlyOneResult ==
  /\ [](\A b \in Batches : \A i \in Items : execCount[b][i] <= 1)
  /\ <>[]AllPushedReported

\* C11, amended: no envelope is started twice, and while done stays open
\* every pushed envelope is eventually dequeued, executed and its result sent.
C11_ExactlyOneResultUnlessShutdown ==
  /\ [](\A b \in Batches : \A i \in Items : execCount[b][i] <= 1)
  /\ <>[](closed \/ AllPushedReported)

C11_Witness ==
  /\ ~closed
  /\ \E b \in Batches :
       /\ qty[b] = MaxBatch /\ idx[b] > MaxBatch
       /\ Failed(b) # {}
       /\ \A i \in ItemsOf(b) : execCount[b][i] = 1 /\ outcome[b][i] # "none"
       /\ Len(res[b]) + (qty[b] - queued[b]) = qty[b]

\* C12: once the derived context of a batch is cancelled, no further
\* envelope of the batch is pushed, whether the queue has room or not.
C12_NoPushAfterCancel ==
  [][\A b \in Batches : CtxDone(b) => idx'[b] = idx[b]]_vars

\* C13: once done is closed, no worker dequeues an envelope and no unit of
\* work starts.
C13_NoDequeueAfterShutdown ==
  [][closed => (Len(in') >= Len(in) /\ execCount' = execCount)]_vars

\* C14: on the paths other than "pool is closed" the error returned is the
\* first one recorded: the context's error when the enqueue loop broke on
\* <-ctx.Done(), else the first non-nil result received; once recorded it is
\* never replaced, and the call returns only after it has received the
\* result of every envelope it pushed.
C14_FirstErrorWins ==
  [][\A b \in Batches :
       /\ err[b] # Nil => err'[b] = err[b]
       /\ (err[b] = Nil /\ err'[b] # Nil)
            => \/ /\ pc[b] = "enqueue" /\ CtxDone(b)
                  /\ err'[b] = Canceled /\ pc'[b] = "collect"
               \/ /\ pc[b] = "collect" /\ res[b] # << >>
                  /\ err'[b] = Head(res[b])
       /\ (pc[b] = "enqueue" /\ pc'[b] = "collect" /\ idx'[b] = idx[b])
            => err'[b] = Canceled
       /\ (queued'[b] < queued[b] /\ err[b] = Nil /\ Head(res[b]) # Nil)
            => err'[b] = Head(res[b])
       /\ (pc[b] # "returned" /\ pc'[b] = "returned" /\ qty'[b] > 0
             /\ ret'[b] # PoolClosed)
            => (ret'[b] = err[b] /\ queued[b] = 0 /\ Drained(b))]_vars

\* A call that broke its enqueue loop on the cancelled context, drained a
\* failing unit's result afterwards and returned the context's error.
C14_Witness ==
  \E b \in Batches :
    /\ pc[b] = "returned" /\ ret[b] = Canceled
    /\ Failed(b) # {}
    /\ idx[b] <= qty[b]

\* C15: the send of a result never blocks: the results buffered in a batch's
\* channel and the envelopes of the batch still queued or in a worker's
\* hands are together at most the channel's capacity, so the channel has
\* room for the result of every envelope in hand, whether the call is still
\* there or has returned.
C15_SendNeverBlocks ==
  /\ \A b \in Batches :
       Len(res[b]) + Cardinality(InQueue(b)) + Cardinality(InHand(b)) <= qty[b]
  /\ \A a \in running : Len(res[a.b]) < ResCap(a.b)

\* A call gone on the "pool is closed" path, a result in its abandoned
\* channel and another of its envelopes in a worker's hands.
C15_Witness ==
  \E b \in Batches :
    /\ pc[b] = "returned" /\ ret[b] = PoolClosed
    /\ res[b] # << >>
    /\ InHand(b) # {}

\* C16: the collection step that receives the first non-nil result, no error
\* recorded yet, records that unit's error and cancels the derived context
\* in the same step, before any further result is received; so a unit of
\* work of the batch that starts once an error is recorded starts with its
\* context cancelled.
C16_CancelOnFirstFailure ==
  [][\A b \in Batches :
       /\ (pc[b] = "collect" /\ err[b] = Nil /\ err'[b] # Nil)
            => /\ derived'[b] = "cancelled"
               /\ err'[b] = Head(res[b])
               /\ \E i \in Failed(b) : err'[b] = ActionErr(b, i)
       /\ (queued'[b] < queued[b] /\ err[b] # Nil) => CtxDone(b)
       /\ \A i \in Items :
            (execCount'[b][i] > execCount[b][i] /\ err[b] # Nil) => CtxDone(b)]_vars

\* A failure is recorded, the caller has not cancelled, and envelopes of the
\* batch are still in the queue: their units of work start after the cancel.
C16_Witness ==
  \E b \in Batches :
    /\ pc[b] = "collect" /\ ~parentDone[b]
    /\ err[b] \notin {Nil, Canceled}
    /\ derived[b] = "cancelled"
    /\ InQueue(b) # {}

\* The error values that can come from batch b itself.
ErrorsOf(b) == {Nil, PoolClosed, Canceled} \cup {ActionErr(b, i) : i \in Items}

\* C17: batches sharing the pool are isolated: a batch's result channel is
\* written only by a worker handing in an envelope of that batch and read
\* only by the batch's own call, which counts one result per receive; what
\* a call records and returns comes from its own batch; and the derived
\* context of a batch changes only in a step of that batch's call or caller.
C17_BatchIsolation ==
  [][\A b \in Batches :
       /\ \A k \in 1..Len(res'[b]) : res'[b][k] \in {Nil} \cup {ActionErr(b, i) : i \in Items}
       /\ err'[b] \in ErrorsOf(b) /\ ret'[b] \in ErrorsOf(b)
       /\ Len(res'[b]) > Len(res[b])
            => \E a \in running : a.b = b /\ a \notin running'
       /\ Len(res'[b]) < Len(res[b])
            => /\ queued'[b] = queued[b] - 1
               /\ \A c \in Batches \ {b} : queued'[c] = queued[c] /\ err'[c] = err[c]
       /\ queued'[b] < queued[b]
            => /\ res'[b] = Tail(res[b])
               /\ \A c \in Batches \ {b} : res'[c] = res[c]
       /\ derived'[b] # derived[b]
            => \/ pc'[b] # pc[b]
               \/ parentDone'[b] # parentDone[b]
               \/ queued'[b] < queued[b]]_vars

\* One batch has failed and is cancelled while another is under way with
\* its context live and a result waiting in its channel.
C17_Witness ==
  \E b \in Batches : \E c \in Batches \ {b} :
    /\ pc[b] = "collect" /\ err[b] \in {ActionErr(b, i) : i \in Items}
    /\ derived[b] = "cancelled"
    /\ pc[c] = "collect" /\ derived[c] = "active"
    /\ res[c] # << >> /\ res[b] # << >>

\* The items of batch b a worker has started, and those waiting in the queue.
Started(b)  == {i \in Items : execCount[b][i] > 0}
Waiting(b)  == {in[k].i : k \in InQueue(b)}

\* C18: the envelopes of a batch are pushed in submission order without
\* gaps (what is pushed is always a prefix of the batch), they wait in the
\* queue in that order, and the workers start them in that order: whatever
\* is started comes before whatever still waits.
C18_SubmissionOrder ==
  \A b \in Batches :
    /\ Started(b) \cup Waiting(b) = 1..(idx[b] - 1)
    /\ Started(b) \cap Waiting(b) = {}
    /\ Cardinality(Waiting(b)) = Cardinality(InQueue(b))
    /\ \A k \in InQueue(b) : \A l \in InQueue(b) : k < l => in[k].i < in[l].i
    /\ \A i \in Started(b) : \A j \in Waiting(b) : i < j

\* Results out of submission order: item 2 has reported while item 1,
\* started before it, is still running, and item 3 waits in the queue.
C18_Witness ==
  \E b \in Batches :
    /\ outcome[b][2] # "none"
    /\ outcome[b][1] = "none" /\ [b |-> b, i |-> 1] \in running
    /\ Waiting(b) = {3}

\* C19: once done is closed every worker terminates: the idle ones leave
\* their select, the one with an envelope in hand sends its result, which
\* does not block, also on a channel whose call has returned, and leaves
\* then (scheduling is fair, every unit of work returns).
C19_WorkersTerminate == closed ~> (exited = n)

\* Every worker has exited, one of them after sending a result on the
\* channel of a call that had returned "pool is closed".
C19_Witness ==
  /\ exited = n /\ n = MaxWorkers
  /\ \E b \in Batches :
       /\ ret[b] = PoolClosed /\ pc[b] = "returned"
       /\ res[b] # << >>

\* C20: a call of Execute that is under way returns, also when done is
\* closed during the call (scheduling is fair, every unit of work returns).
C20_TerminationUnderShutdown ==
  \A b \in Batches :
    (pc[b] \in {"enqueue", "collect"}) ~> (pc[b] = "returned")

====
